---- MODULE Spec2Model ----
(***************************************************************************)
(* Model of src/src/temperature.rs: the Temperature value type (a Kelvin   *)
(* magnitude stored as an IEEE-754 binary32 number plus a Scale tag), its  *)
(* constructors, re-tagging operations, fallible construction, numeric     *)
(* extraction and text rendering.                                          *)
(*                                                                         *)
(* The f32 arithmetic of the source is modelled bit-exactly (round to      *)
(* nearest, ties to even, subnormals, overflow to infinity, NaN).  TLC     *)
(* integers are 32 bits wide, so the exact intermediate results are held   *)
(* in little-endian sequences of 12-bit limbs.                             *)
(***************************************************************************)
EXTENDS Integers, Sequences, FiniteSets, TLC

(***************************************************************************)
(* Arbitrary-precision naturals: <<l1, l2, ...>> is l1 + l2*B + ..., with  *)
(* no most-significant zero limb; <<>> is 0.                               *)
(***************************************************************************)
B == 2^12

RECURSIVE BigFromInt(_)
BigFromInt(n) == IF n = 0 THEN <<>> ELSE <<n % B>> \o BigFromInt(n \div B)

RECURSIVE BigStrip(_)
BigStrip(x) ==
    IF x = <<>> THEN <<>>
    ELSE IF x[Len(x)] = 0 THEN BigStrip(SubSeq(x, 1, Len(x) - 1)) ELSE x

Limb(x, i) == IF i <= Len(x) THEN x[i] ELSE 0

RECURSIVE BigAddC(_, _, _, _)
BigAddC(x, y, i, carry) ==
    IF i > Len(x) /\ i > Len(y)
    THEN (IF carry = 0 THEN <<>> ELSE <<carry>>)
    ELSE LET s == Limb(x, i) + Limb(y, i) + carry
         IN  <<s % B>> \o BigAddC(x, y, i + 1, s \div B)

BigAdd(x, y) == BigAddC(x, y, 1, 0)

RECURSIVE BigSubC(_, _, _, _)
BigSubC(x, y, i, borrow) ==
    IF i > Len(x) THEN <<>>
    ELSE LET d == Limb(x, i) - Limb(y, i) - borrow
         IN  IF d < 0 THEN <<d + B>> \o BigSubC(x, y, i + 1, 1)
                      ELSE <<d>> \o BigSubC(x, y, i + 1, 0)

\* x - y, for x >= y
BigSub(x, y) == BigStrip(BigSubC(x, y, 1, 0))

RECURSIVE BigCmpAt(_, _, _)
BigCmpAt(x, y, i) ==
    IF i = 0 THEN 0
    ELSE IF x[i] < y[i] THEN -1
    ELSE IF x[i] > y[i] THEN 1
    ELSE BigCmpAt(x, y, i - 1)

\* -1, 0 or 1 as x <, =, > y
BigCmp(x, y) ==
    IF Len(x) < Len(y) THEN -1
    ELSE IF Len(x) > Len(y) THEN 1
    ELSE BigCmpAt(x, y, Len(x))

RECURSIVE BigMulSmallC(_, _, _, _)
BigMulSmallC(x, k, i, carry) ==
    IF i > Len(x) THEN BigFromInt(carry)
    ELSE LET p == x[i] * k + carry
         IN  <<p % B>> \o BigMulSmallC(x, k, i + 1, p \div B)

\* x * k, for 0 <= k < 2^18
BigMulSmall(x, k) == BigStrip(BigMulSmallC(x, k, 1, 0))

Zeros(n) == [i \in 1..n |-> 0]

\* x * 2^n
BigShl(x, n) ==
    IF x = <<>> THEN <<>>
    ELSE Zeros(n \div 12) \o BigMulSmall(x, 2^(n % 12))

RECURSIVE BigDivSmallQ(_, _, _, _)
BigDivSmallQ(x, k, i, rem) ==
    IF i = 0 THEN [q |-> <<>>, r |-> rem]
    ELSE LET cur  == rem * B + x[i]
             rest == BigDivSmallQ(x, k, i - 1, cur % k)
         IN  [q |-> rest.q \o <<cur \div k>>, r |-> rest.r]

\* quotient and remainder of x by k, for 0 < k < 2^18
BigDivSmall(x, k) ==
    LET d == BigDivSmallQ(x, k, Len(x), 0)
    IN  [q |-> BigStrip(d.q), r |-> d.r]

\* floor(x / 2^n)
BigShr(x, n) ==
    IF n \div 12 >= Len(x) THEN <<>>
    ELSE BigDivSmall(SubSeq(x, n \div 12 + 1, Len(x)), 2^(n % 12)).q

\* x mod 2^n
BigLow(x, n) == BigSub(x, BigShl(BigShr(x, n), n))

RECURSIVE IntBitLen(_)
IntBitLen(n) == IF n = 0 THEN 0 ELSE 1 + IntBitLen(n \div 2)

BigBitLen(x) ==
    IF x = <<>> THEN 0 ELSE 12 * (Len(x) - 1) + IntBitLen(x[Len(x)])

\* x as an integer, for x < 2^31
RECURSIVE BigToInt(_)
BigToInt(x) == IF x = <<>> THEN 0 ELSE x[1] + B * BigToInt(Tail(x))

BigIsOdd(x) == x # <<>> /\ x[1] % 2 = 1

\* x * n, for 0 <= n < 2^24
BigMulInt(x, n) ==
    BigAdd(BigMulSmall(x, n % B), BigShl(BigMulSmall(x, n \div B), 12))

(***************************************************************************)
(* IEEE-754 binary32 (Rust f32, the type of Temperature.kelvin).  A finite *)
(* value is [k |-> "fin", s, m, e] and denotes (-1)^s * m * 2^e, where     *)
(* either 2^23 <= m < 2^24 and MinExp <= e <= MaxExp (normal) or           *)
(* m < 2^23 and e = MinExp (subnormal, zero included).  Zero is kept       *)
(* unsigned.  Infinities are [k |-> "inf", s] and NaN is [k |-> "nan"],    *)
(* with the unused fields 0.                                               *)
(***************************************************************************)
MantBits == 24
MinExp == -149
MaxExp == 104

Fin(s, m, e) == [k |-> "fin", s |-> s, m |-> m, e |-> e]
Inf(s) == [k |-> "inf", s |-> s, m |-> 0, e |-> 0]
NaN == [k |-> "nan", s |-> 0, m |-> 0, e |-> 0]
Zero == Fin(0, 0, MinExp)

IsFin(a) == a.k = "fin"
IsZero(a) == a.k = "fin" /\ a.m = 0

Max(i, j) == IF i > j THEN i ELSE j

\* the rounded mantissa m1 (possibly 2^MantBits) at exponent e, as an f32
Pack(s, m1, e) ==
    IF m1 = 2^MantBits
    THEN (IF e + 1 > MaxExp THEN Inf(s) ELSE Fin(s, 2^(MantBits - 1), e + 1))
    ELSE IF e > MaxExp THEN Inf(s)
    ELSE IF m1 = 0 THEN Zero
    ELSE Fin(s, m1, e)

\* the kept bits q, incremented when the dropped bits are above half (c = 1), or
\* are half (c = 0) and sticky or q is odd
RoundedMant(q, c, sticky) ==
    BigToInt(q) + (IF c = 1 \/ (c = 0 /\ (sticky \/ BigIsOdd(q))) THEN 1 ELSE 0)

\* N * 2^E with the want low bits of N rounded away (want <= 0: none, the
\* mantissa is shifted up instead)
RoundAt(s, N, E, sticky, want) ==
    IF N = <<>> /\ ~sticky THEN Zero
    ELSE IF want <= 0 THEN Fin(s, BigToInt(BigShl(N, -want)), E + want)
    ELSE Pack(s,
              RoundedMant(BigShr(N, want),
                          BigCmp(BigLow(N, want), BigShl(<<1>>, want - 1)),
                          sticky),
              E + want)

\* The f32 nearest to (-1)^s * (N + f) * 2^E, N a Big natural and 0 <= f < 1 with
\* f > 0 iff sticky; ties go to the even mantissa.  With sticky, N has more than
\* MantBits + 1 bits.  MantBits bits are kept, fewer below the normal range.
F32Round(s, N, E, sticky) ==
    RoundAt(s, N, E, sticky, Max(BigBitLen(N) - MantBits, MinExp - E))

\* an integer literal n, |n| < 2^31
F32FromInt(n) ==
    F32Round(IF n < 0 THEN 1 ELSE 0, BigFromInt(IF n < 0 THEN -n ELSE n), 0, FALSE)

F32Neg(a) == IF a.k = "nan" \/ IsZero(a) THEN a ELSE [a EXCEPT !.s = 1 - a.s]

\* a + b for finite a and b whose magnitudes at the common exponent e are Na and
\* Nb, c comparing Na with Nb
AddMagnitudes(a, b, e, Na, Nb, c) ==
    IF a.s # b.s /\ c = 0 THEN Zero
    ELSE F32Round(IF a.s = b.s \/ c = 1 THEN a.s ELSE b.s,
                  IF a.s = b.s THEN BigAdd(Na, Nb)
                  ELSE IF c = 1 THEN BigSub(Na, Nb) ELSE BigSub(Nb, Na),
                  e, FALSE)

AddAligned(a, b, e, Na, Nb) == AddMagnitudes(a, b, e, Na, Nb, BigCmp(Na, Nb))

AddAt(a, b, e) ==
    AddAligned(a, b, e, BigShl(BigFromInt(a.m), a.e - e), BigShl(BigFromInt(b.m), b.e - e))

\* a + b
F32Add(a, b) ==
    IF a.k = "nan" \/ b.k = "nan" THEN NaN
    ELSE IF a.k = "inf" /\ b.k = "inf" THEN (IF a.s = b.s THEN a ELSE NaN)
    ELSE IF a.k = "inf" THEN a
    ELSE IF b.k = "inf" THEN b
    ELSE AddAt(a, b, IF a.e < b.e THEN a.e ELSE b.e)

\* a - b
F32Sub(a, b) == F32Add(a, F32Neg(b))

\* a * b
F32Mul(a, b) ==
    IF a.k = "nan" \/ b.k = "nan" THEN NaN
    ELSE IF a.k = "inf" \/ b.k = "inf"
    THEN (IF IsZero(a) \/ IsZero(b) THEN NaN ELSE Inf((a.s + b.s) % 2))
    ELSE IF a.m = 0 \/ b.m = 0 THEN Zero
    ELSE F32Round((a.s + b.s) % 2, BigMulInt(BigFromInt(a.m), b.m), a.e + b.e, FALSE)

\* n more quotient bits of r / d by long division, r < d
RECURSIVE LongDiv(_, _, _, _)
LongDiv(r, d, n, q) ==
    IF n = 0 THEN [q |-> q, r |-> r]
    ELSE IF 2 * r >= d THEN LongDiv(2 * r - d, d, n - 1, 2 * q + 1)
    ELSE LongDiv(2 * r, d, n - 1, 2 * q)

Quotient(a, b, d) ==
    F32Round((a.s + b.s) % 2, BigFromInt(d.q), a.e - b.e - (MantBits + 2), d.r # 0)

\* a / b for normal finite a and b (the operands of the source's literal quotients)
F32Div(a, b) == Quotient(a, b, LongDiv(a.m % b.m, b.m, MantBits + 2, a.m \div b.m))

\* the decimal literal n / 10^p (n and 10^p below 2^24, hence exact in f32, so
\* the correctly rounded quotient is the correctly rounded literal)
F32Lit(n, p) == F32Div(F32FromInt(n), F32FromInt(10^p))

\* f32 ==
F32Eq(a, b) == a.k # "nan" /\ b.k # "nan" /\ a = b

\* the magnitude of a below that of b, neither NaN
MagLt(a, b) ==
    IF a.k = "inf" THEN FALSE
    ELSE IF b.k = "inf" THEN TRUE
    ELSE a.e < b.e \/ (a.e = b.e /\ a.m < b.m)

\* f32 <
F32Lt(a, b) ==
    /\ a.k # "nan" /\ b.k # "nan"
    /\ IF a.s # b.s THEN a.s = 1
       ELSE IF a.s = 0 THEN MagLt(a, b) ELSE MagLt(b, a)

\* f32 >=
F32Ge(a, b) == a.k # "nan" /\ b.k # "nan" /\ ~F32Lt(a, b)

(***************************************************************************)
(* Rust's "{}" of an f32 (core::fmt float Display, no precision given):    *)
(* the shortest decimal digit string that reads back as the same f32, the  *)
(* closest such string when several are as short (the upper one on a tie), *)
(* in positional notation.                                                 *)
(***************************************************************************)
\* floor(x / 10^n)
RECURSIVE BigDivPow10(_, _)
BigDivPow10(x, n) ==
    IF x = <<>> \/ n = 0 THEN x
    ELSE IF n >= 5 THEN BigDivPow10(BigDivSmall(x, 10^5).q, n - 5)
    ELSE BigDivSmall(x, 10^n).q

\* x * 10^n
RECURSIVE BigMulPow10(_, _)
BigMulPow10(x, n) ==
    IF x = <<>> \/ n = 0 THEN x
    ELSE IF n >= 5 THEN BigMulPow10(BigMulSmall(x, 10^5), n - 5)
    ELSE BigMulSmall(x, 10^n)

\* The decimal c * 10^k chosen for the finite non-zero a at the grid 10^k, or no
\* choice when no multiple of 10^k rounds back to a.  All quantities are scaled
\* by 4 * 2^max(0,-e) * 10^max(0,-k): V is a, Up and Dn the distances to the
\* midpoints with the neighbouring f32 values, c * 10^k scales to Grid(c, a, k).
Grid(c, a, k) == BigShl(BigMulPow10(c, Max(0, k)), Max(0, -a.e) + 2)

\* lo and hi say whether cLo and cLo + 1 round back, near whether cLo is the closer
Pick(k, cLo, lo, hi, near) ==
    IF lo /\ (~hi \/ near) THEN [ok |-> TRUE, c |-> cLo, k |-> k]
    ELSE IF hi THEN [ok |-> TRUE, c |-> BigAdd(cLo, <<1>>), k |-> k]
    ELSE [ok |-> FALSE, c |-> <<>>, k |-> k]

\* a bound reached exactly (d = 0) rounds back iff the mantissa is even
Inside(d, side, a) == d = side \/ (d = 0 /\ a.m % 2 = 0)

CandidateBetween(a, k, V, Up, Dn, cLo, gLo, gHi) ==
    Pick(k, cLo,
         cLo # <<>> /\ Inside(BigCmp(BigAdd(gLo, Dn), V), 1, a),
         Inside(BigCmp(gHi, BigAdd(V, Up)), -1, a),
         BigCmp(BigShl(V, 1), BigAdd(gLo, gHi)) = -1)

CandidateFrom(a, k, V, Up, Dn, cLo) ==
    CandidateBetween(a, k, V, Up, Dn, cLo, Grid(cLo, a, k), Grid(BigAdd(cLo, <<1>>), a, k))

CandidateAround(a, k, V, Up, Dn) ==
    CandidateFrom(a, k, V, Up, Dn, BigDivPow10(BigShr(V, Max(0, -a.e) + 2), Max(0, k)))

CandidateScaled(a, k, unit, Up) ==
    CandidateAround(a, k, BigMulInt(BigShl(unit, 2), a.m), Up,
                    IF a.m = 2^(MantBits - 1) /\ a.e > MinExp THEN unit ELSE Up)

CandidateUnit(a, k, unit) == CandidateScaled(a, k, unit, BigShl(unit, 1))

Candidate(a, k) == CandidateUnit(a, k, BigMulPow10(BigShl(<<1>>, Max(0, a.e)), Max(0, -k)))

\* the coarsest grid, from 10^k downwards, that has a candidate
RECURSIVE Shortest(_, _)
RECURSIVE ShortestOr(_, _, _)
ShortestOr(a, k, d) == IF d.ok THEN d ELSE Shortest(a, k - 1)
Shortest(a, k) == ShortestOr(a, k, Candidate(a, k))

\* an upper bound of the decimal exponent of a: a < 2^(e + 24) <= 10^KStart(a)
KStart(a) == IF a.e + MantBits <= 0 THEN 0 ELSE ((a.e + MantBits) * 31) \div 100 + 1

DigitChar(d) == <<"0", "1", "2", "3", "4", "5", "6", "7", "8", "9">>[d + 1]

\* all decimal digits of x ("" for 0)
RECURSIVE BigToDec(_)
RECURSIVE BigToDecOf(_)
BigToDecOf(d) == BigToDec(d.q) \o DigitChar(d.r)
BigToDec(x) == IF x = <<>> THEN "" ELSE BigToDecOf(BigDivSmall(x, 10))

RECURSIVE ZeroStr(_)
ZeroStr(n) == IF n = 0 THEN "" ELSE "0" \o ZeroStr(n - 1)

\* the n low decimal digits of x, leading zeros kept
RECURSIVE LowDec(_, _)
RECURSIVE LowDecOf(_, _)
LowDecOf(d, n) == LowDec(d.q, n - 1) \o DigitChar(d.r)
LowDec(x, n) ==
    IF n = 0 THEN ""
    ELSE IF x = <<>> THEN ZeroStr(n)
    ELSE LowDecOf(BigDivSmall(x, 10), n)

IntStr(ip) == IF ip = <<>> THEN "0" ELSE BigToDec(ip)

\* c * 10^k in positional notation
DecStr(d) ==
    IF d.k >= 0 THEN BigToDec(d.c) \o ZeroStr(d.k)
    ELSE IntStr(BigDivPow10(d.c, -d.k)) \o "." \o LowDec(d.c, -d.k)

F32Display(a) ==
    IF a.k = "nan" THEN "NaN"
    ELSE IF a.k = "inf" THEN (IF a.s = 1 THEN "-inf" ELSE "inf")
    ELSE IF a.m = 0 THEN "0"
    ELSE (IF a.s = 1 THEN "-" ELSE "") \o DecStr(Shortest(a, KStart(a)))

(***************************************************************************)
(* src/src/temperature.rs                                                  *)
(***************************************************************************)
Scale == {"Celsius", "Fahrenheit", "Kelvin", "Rankine"}

\* impl Default for Scale
ScaleDefault == "Kelvin"

\* the f32 literals of the source
Lit273_15 == F32Lit(27315, 2)
Lit459_67 == F32Lit(45967, 2)
Lit5Over9 == F32Div(F32FromInt(5), F32FromInt(9))
Lit9Over5 == F32Div(F32FromInt(9), F32FromInt(5))
F32MAX == Fin(0, 2^MantBits - 1, MaxExp)

\* #[derive(Default)] struct Temperature { kelvin: f32, scale: Scale }
TemperatureDefault == [kelvin |-> Zero, scale |-> ScaleDefault]

ABSOLUTE_ZERO == [kelvin |-> F32FromInt(0), scale |-> "Kelvin"]
FREEZING_POINT_OF_BRINE == [kelvin |-> F32Lit(25537, 2), scale |-> "Kelvin"]
FREEZING_POINT_OF_WATER == [kelvin |-> F32Lit(27315, 2), scale |-> "Kelvin"]
BOILING_POINT_OF_WATER == [kelvin |-> F32Lit(3731339, 4), scale |-> "Kelvin"]
MIN == ABSOLUTE_ZERO
MAX == [kelvin |-> F32MAX, scale |-> "Kelvin"]

celsius(x) == [kelvin |-> F32Add(x, Lit273_15), scale |-> "Celsius"]

\* fahrenheit without the 5/9 factor
fahrenheit_unscaled(x) == [kelvin |-> F32Add(x, Lit459_67), scale |-> "Fahrenheit"]

fahrenheit(x) == [kelvin |-> F32Mul(F32Add(x, Lit459_67), Lit5Over9), scale |-> "Fahrenheit"]

kelvin(x) == [kelvin |-> x, scale |-> "Kelvin"]

rankine(x) == [kelvin |-> F32Add(x, Lit459_67), scale |-> "Rankine"]

new(x) == kelvin(x)

C(x) == celsius(x)
F(x) == fahrenheit(x)
K(x) == kelvin(x)
R(x) == rankine(x)

\* a std::ops::Range is the pair of its endpoints
C_range(r) == [start |-> C(r.start), end |-> C(r.end)]
F_range(r) == [start |-> F(r.start), end |-> F(r.end)]
K_range(r) == [start |-> K(r.start), end |-> K(r.end)]
R_range(r) == [start |-> R(r.start), end |-> R(r.end)]

to_celsius(self) == [kelvin |-> self.kelvin, scale |-> "Celsius"]
\* to_fahrenheit converting the magnitude as well
to_fahrenheit_converting(self) ==
    [kelvin |-> F32Sub(F32Mul(self.kelvin, Lit9Over5), Lit459_67), scale |-> "Fahrenheit"]
to_fahrenheit(self) == [kelvin |-> self.kelvin, scale |-> "Fahrenheit"]
\* to_kelvin leaving the tag alone
to_kelvin_keeping_tag(self) == [kelvin |-> self.kelvin, scale |-> self.scale]
to_kelvin(self) == [kelvin |-> self.kelvin, scale |-> "Kelvin"]
to_rankine(self) == [kelvin |-> self.kelvin, scale |-> "Rankine"]

\* Result<Temperature, ()>
Ok(v) == [tag |-> "Ok", value |-> v]
Err == [tag |-> "Err", value |-> TemperatureDefault]

\* try_from with > in place of >=
try_from_strict(value) == IF F32Lt(Zero, value) THEN Ok(kelvin(value)) ELSE Err

\* impl TryFrom<f32> for Temperature
try_from(value) == IF F32Ge(value, Zero) THEN Ok(kelvin(value)) ELSE Err

\* impl Into<f32> for Temperature
into(self) ==
    CASE self.scale = "Celsius"    -> F32Sub(self.kelvin, Lit273_15)
      [] self.scale = "Fahrenheit" -> F32Sub(F32Mul(self.kelvin, Lit9Over5), Lit459_67)
      [] self.scale = "Kelvin"     -> self.kelvin
      [] self.scale = "Rankine"    -> F32Mul(self.kelvin, Lit9Over5)

\* fmt writing the stored magnitude instead of the extracted value
fmt_magnitude(self) ==
    F32Display(self.kelvin) \o
        (CASE self.scale = "Celsius"    -> " °C"
           [] self.scale = "Fahrenheit" -> " °F"
           [] self.scale = "Kelvin"     -> " K"
           [] self.scale = "Rankine"    -> " °R")

\* impl fmt::Display for Temperature
fmt(self) ==
    F32Display(into(self)) \o
        (CASE self.scale = "Celsius"    -> " °C"
           [] self.scale = "Fahrenheit" -> " °F"
           [] self.scale = "Kelvin"     -> " K"
           [] self.scale = "Rankine"    -> " °R")

\* equality of the magnitudes alone
eq_magnitude(a, b) == F32Eq(a.kelvin, b.kelvin)

\* #[derive(PartialEq)] on Temperature and Scale: field by field, f32 == on kelvin
eq(a, b) == F32Eq(a.kelvin, b.kelvin) /\ a.scale = b.scale

(***************************************************************************)
(* A client of the module.  t is the Temperature it holds, other the one   *)
(* it held before the last call.  The history variables origin (the        *)
(* constructor call that made t and its argument), base (the value that    *)
(* call returned) and tags (the re-taggings applied since) record how t    *)
(* came about.  res, out and text hold what the last call returned when it *)
(* was try_from, into or fmt.                                              *)
(***************************************************************************)
VARIABLES t, other, origin, base, tags, res, out, text

vars == <<t, other, origin, base, tags, res, out, text>>

NumInputs == 7
MaxRetags == 2

\* the raw numbers the client passes
InputList ==
    << F32FromInt(32), F32Lit(49167, 2), F32FromInt(100), F32FromInt(212),
       F32FromInt(-500), F32FromInt(0), NaN, F32FromInt(-40), F32Lit(1, 1) >>

Inputs == {InputList[i] : i \in 1..NumInputs}

Consts ==
    { ABSOLUTE_ZERO, FREEZING_POINT_OF_BRINE, FREEZING_POINT_OF_WATER,
      BOILING_POINT_OF_WATER, MIN, MAX }

NoRes == [tag |-> "None", input |-> Zero, value |-> TemperatureDefault]
NoOut == [some |-> FALSE, v |-> Zero]
NoText == ""

Init ==
    /\ t = TemperatureDefault
    /\ other = TemperatureDefault
    /\ origin = [ctor |-> "default", x |-> Zero]
    /\ base = TemperatureDefault
    /\ tags = <<>>
    /\ res = NoRes
    /\ out = NoOut
    /\ text = NoText

\* the client now holds the freshly constructed v
Made(v) ==
    /\ t' = v
    /\ other' = t
    /\ base' = v
    /\ tags' = <<>>
    /\ res' = NoRes
    /\ out' = NoOut
    /\ text' = NoText

\* the client now holds the endpoints of the freshly constructed range r
MadeRange(r) ==
    /\ t' = r.end
    /\ other' = r.start
    /\ base' = r.end
    /\ tags' = <<>>
    /\ res' = NoRes
    /\ out' = NoOut
    /\ text' = NoText

\* the client replaces t by its re-tagging v to scale s
Retagged(s, v) ==
    /\ t' = v
    /\ other' = t
    /\ tags' = Append(tags, s)
    /\ res' = NoRes
    /\ out' = NoOut
    /\ text' = NoText
    /\ UNCHANGED <<origin, base>>

\* Every call the client can make with its inputs, paired with what the call
\* returns (the functions are pure, so each set is computed once).
NewCalls == {[x |-> x, v |-> new(x)] : x \in Inputs}
CelsiusCalls == {[x |-> x, v |-> celsius(x)] : x \in Inputs}
FahrenheitCalls == {[x |-> x, v |-> fahrenheit(x)] : x \in Inputs}
KelvinCalls == {[x |-> x, v |-> kelvin(x)] : x \in Inputs}
RankineCalls == {[x |-> x, v |-> rankine(x)] : x \in Inputs}
CCalls == {[x |-> x, v |-> C(x)] : x \in Inputs}
FCalls == {[x |-> x, v |-> F(x)] : x \in Inputs}
KCalls == {[x |-> x, v |-> K(x)] : x \in Inputs}
RCalls == {[x |-> x, v |-> R(x)] : x \in Inputs}

Ranges == {[start |-> a, end |-> b] : a, b \in Inputs}

CRangeCalls == {[x |-> r, v |-> C_range(r)] : r \in Ranges}
FRangeCalls == {[x |-> r, v |-> F_range(r)] : r \in Ranges}
KRangeCalls == {[x |-> r, v |-> K_range(r)] : r \in Ranges}
RRangeCalls == {[x |-> r, v |-> R_range(r)] : r \in Ranges}

TryFromCalls == {[x |-> x, v |-> try_from(x)] : x \in Inputs}

New ==
    \E c \in NewCalls :
        /\ origin' = [ctor |-> "kelvin", x |-> c.x]
        /\ Made(c.v)

Celsius ==
    \E c \in CelsiusCalls :
        /\ origin' = [ctor |-> "celsius", x |-> c.x]
        /\ Made(c.v)

Fahrenheit ==
    \E c \in FahrenheitCalls :
        /\ origin' = [ctor |-> "fahrenheit", x |-> c.x]
        /\ Made(c.v)

Kelvin ==
    \E c \in KelvinCalls :
        /\ origin' = [ctor |-> "kelvin", x |-> c.x]
        /\ Made(c.v)

Rankine ==
    \E c \in RankineCalls :
        /\ origin' = [ctor |-> "rankine", x |-> c.x]
        /\ Made(c.v)

CallC ==
    \E c \in CCalls :
        /\ origin' = [ctor |-> "celsius", x |-> c.x]
        /\ Made(c.v)

CallF ==
    \E c \in FCalls :
        /\ origin' = [ctor |-> "fahrenheit", x |-> c.x]
        /\ Made(c.v)

CallK ==
    \E c \in KCalls :
        /\ origin' = [ctor |-> "kelvin", x |-> c.x]
        /\ Made(c.v)

CallR ==
    \E c \in RCalls :
        /\ origin' = [ctor |-> "rankine", x |-> c.x]
        /\ Made(c.v)

CRange ==
    \E c \in CRangeCalls :
        /\ origin' = [ctor |-> "celsius", x |-> c.x.end]
        /\ MadeRange(c.v)

FRange ==
    \E c \in FRangeCalls :
        /\ origin' = [ctor |-> "fahrenheit", x |-> c.x.end]
        /\ MadeRange(c.v)

KRange ==
    \E c \in KRangeCalls :
        /\ origin' = [ctor |-> "kelvin", x |-> c.x.end]
        /\ MadeRange(c.v)

RRange ==
    \E c \in RRangeCalls :
        /\ origin' = [ctor |-> "rankine", x |-> c.x.end]
        /\ MadeRange(c.v)

UseConst ==
    \E c \in Consts :
        /\ origin' = [ctor |-> "const", x |-> c.kelvin]
        /\ Made(c)

ToCelsius ==
    /\ Len(tags) < MaxRetags
    /\ Retagged("Celsius", to_celsius(t))

ToFahrenheit ==
    /\ Len(tags) < MaxRetags
    /\ Retagged("Fahrenheit", to_fahrenheit(t))

ToKelvin ==
    /\ Len(tags) < MaxRetags
    /\ Retagged("Kelvin", to_kelvin(t))

ToRankine ==
    /\ Len(tags) < MaxRetags
    /\ Retagged("Rankine", to_rankine(t))

TryFrom ==
    \E c \in TryFromCalls :
        IF c.v.tag = "Ok"
        THEN /\ t' = c.v.value
             /\ other' = t
             /\ origin' = [ctor |-> "kelvin", x |-> c.x]
             /\ base' = c.v.value
             /\ tags' = <<>>
             /\ res' = [tag |-> "Ok", input |-> c.x, value |-> c.v.value]
             /\ out' = NoOut
             /\ text' = NoText
        ELSE /\ res' = [tag |-> "Err", input |-> c.x, value |-> c.v.value]
             /\ other' = t
             /\ out' = NoOut
             /\ text' = NoText
             /\ UNCHANGED <<t, origin, base, tags>>

Into ==
    /\ out' = [some |-> TRUE, v |-> into(t)]
    /\ other' = t
    /\ res' = NoRes
    /\ text' = NoText
    /\ UNCHANGED <<t, origin, base, tags>>

Fmt ==
    /\ text' = fmt(t)
    /\ other' = t
    /\ res' = NoRes
    /\ out' = NoOut
    /\ UNCHANGED <<t, origin, base, tags>>

Next ==
    \/ New \/ Celsius \/ Fahrenheit \/ Kelvin \/ Rankine
    \/ CallC \/ CallF \/ CallK \/ CallR
    \/ CRange \/ FRange \/ KRange \/ RRange
    \/ UseConst
    \/ ToCelsius \/ ToFahrenheit \/ ToKelvin \/ ToRankine
    \/ TryFrom \/ Into \/ Fmt

Spec == Init /\ [][Next]_vars

(***************************************************************************)
(* Properties                                                              *)
(***************************************************************************)
Ctors == {"celsius", "fahrenheit", "kelvin", "rankine"}

ScaleOf(ctor) ==
    CASE ctor = "celsius"    -> "Celsius"
      [] ctor = "fahrenheit" -> "Fahrenheit"
      [] ctor = "kelvin"     -> "Kelvin"
      [] ctor = "rankine"    -> "Rankine"

\* x as a number is >= 0 (NaN is not)
NonNegative(x) == x.k # "nan" /\ x.s = 0
Negative(x) == x.k # "nan" /\ x.s = 1

F32Abs(a) == IF a.k = "nan" THEN a ELSE [a EXCEPT !.s = 0]

\* |a - b| <= tol, a and b finite
Small(d, tol) == d.k = "fin" /\ ~F32Lt(tol, F32Abs(d))
Within(a, b, tol) == Small(F32Sub(a, b), tol)

\* 2^-15, the spacing of the f32 values between 256 and 512
Ulp273 == Fin(0, 2^(MantBits - 1), -38)

\* 2^-10, above every rounding error of the conversions on the inputs used
Tol == Fin(0, 2^(MantBits - 1), -33)

\* the Kelvin equivalent of x degrees of the constructor's scale
KelvinEquivalent(ctor, x) ==
    CASE ctor = "celsius"    -> F32Add(x, Lit273_15)
      [] ctor = "fahrenheit" -> F32Mul(F32Add(x, Lit459_67), Lit5Over9)
      [] ctor = "kelvin"     -> x
      [] ctor = "rankine"    -> F32Mul(x, Lit5Over9)

\* k Kelvin in degrees of scale s
FromKelvin(s, k) ==
    CASE s = "Celsius"    -> F32Sub(k, Lit273_15)
      [] s = "Fahrenheit" -> F32Sub(F32Mul(k, Lit9Over5), Lit459_67)
      [] s = "Kelvin"     -> k
      [] s = "Rankine"    -> F32Mul(k, Lit9Over5)

Suffix(s) ==
    CASE s = "Celsius"    -> "°C"
      [] s = "Fahrenheit" -> "°F"
      [] s = "Kelvin"     -> "K"
      [] s = "Rankine"    -> "°R"

\* C1: try_from(x) returns Ok exactly when x >= 0; then the value is tagged Kelvin
\* with magnitude x; for x < 0 it returns Err and no Temperature is produced (the
\* client holds what it held).
TryFromSucceedsIffNonNegative ==
    res.tag # "None" =>
        /\ (res.tag = "Ok") <=> NonNegative(res.input)
        /\ res.tag = "Ok" =>
              /\ res.value.scale = "Kelvin"
              /\ F32Eq(res.value.kelvin, res.input)
              /\ t = res.value
        /\ Negative(res.input) => res.tag = "Err" /\ t = other

TryFromZeroIsOk == res.tag = "Ok" /\ res.input = Zero /\ t = kelvin(Zero)

\* C2: after any sequence of re-taggings the magnitude is the one the value was
\* constructed with, and the scale is the one the last re-tagging names.
RetagKeepsMagnitude ==
    tags # <<>> => t.kelvin = base.kelvin /\ t.scale = tags[Len(tags)]

RetaggedTwice ==
    /\ Len(tags) = 2
    /\ origin.ctor = "fahrenheit"
    /\ tags = <<"Celsius", "Rankine">>
    /\ t.scale = "Rankine"

\* C3: the magnitude is the Kelvin equivalent of the constructor's argument in
\* the constructor's scale, whatever re-taggings followed.
MagnitudeIsKelvinEquivalent ==
    origin.ctor \in Ctors => t.kelvin = KelvinEquivalent(origin.ctor, origin.x)

\* C4: rankine(491.67) is tagged Rankine, has magnitude 273.15 and extracts to 491.67.
Rankine491_67 ==
    (origin = [ctor |-> "rankine", x |-> F32Lit(49167, 2)] /\ tags = <<>>) =>
        /\ t.scale = "Rankine"
        /\ F32Eq(t.kelvin, Lit273_15)
        /\ out.some => F32Eq(out.v, F32Lit(49167, 2))

\* C5 as stated: fahrenheit(32.0) is tagged Fahrenheit, has exactly the magnitude
\* of FREEZING_POINT_OF_WATER and extracts to exactly 32.0.
Fahrenheit32Exact ==
    (origin = [ctor |-> "fahrenheit", x |-> F32FromInt(32)] /\ tags = <<>>) =>
        /\ t.scale = "Fahrenheit"
        /\ F32Eq(t.kelvin, FREEZING_POINT_OF_WATER.kelvin)
        /\ out.some => F32Eq(out.v, F32FromInt(32))

\* C5 amended: fahrenheit(32.0) is tagged Fahrenheit, its magnitude is within
\* 2^-15 (one f32 step at that size) of the magnitude of FREEZING_POINT_OF_WATER,
\* and it extracts to within 2^-15 of 32.0.
Fahrenheit32Near ==
    (origin = [ctor |-> "fahrenheit", x |-> F32FromInt(32)] /\ tags = <<>>) =>
        /\ t.scale = "Fahrenheit"
        /\ Within(t.kelvin, FREEZING_POINT_OF_WATER.kelvin, Ulp273)
        /\ out.some => Within(out.v, F32FromInt(32), Ulp273)

Fahrenheit32Extracted ==
    /\ origin = [ctor |-> "fahrenheit", x |-> F32FromInt(32)]
    /\ tags = <<>>
    /\ out.some

\* C6: two Temperatures are equal exactly when they have the same magnitude (as
\* f32 values, so a NaN magnitude equals nothing) and the same scale; celsius(100.0)
\* and fahrenheit(212.0) are not equal; a value re-tagged to another scale is not
\* equal to the value it was re-tagged from.
EqualityIsRepresentation ==
    /\ eq(t, other) <=> (t = other /\ t.kelvin.k # "nan")
    /\ (other = celsius(F32FromInt(100)) /\ t = fahrenheit(F32FromInt(212))) => ~eq(t, other)
    /\ (tags # <<>> /\ other.scale # t.scale) => other.kelvin = t.kelvin /\ ~eq(t, other)

RetaggedToAnotherScale ==
    /\ tags # <<>>
    /\ other.scale # t.scale
    /\ F32Eq(other.kelvin, t.kelvin)

\* C7: no Temperature the client can obtain has a magnitude below that of MIN.
NothingBelowMIN == ~F32Lt(t.kelvin, MIN.kelvin)

\* C8, general part: the text is the shortest decimal of the extracted number, a
\* space, and the unit of the scale.
RenderedAsNumberAndUnit ==
    text # NoText => text = F32Display(FromKelvin(t.scale, t.kelvin)) \o " " \o Suffix(t.scale)

\* C8 as stated: the above, and FREEZING_POINT_OF_WATER.to_fahrenheit() renders as "32 °F".
FreezingPointRendersAs32F ==
    /\ RenderedAsNumberAndUnit
    /\ (base = FREEZING_POINT_OF_WATER /\ t.scale = "Fahrenheit" /\ text # NoText)
          => text = "32 °F"

\* C8 amended: the general part, and FREEZING_POINT_OF_WATER.to_fahrenheit() renders
\* as "31.99997 °F", the f32 value of 273.15 * (9/5) - 459.67.
FreezingPointRendersAs31_99997F ==
    /\ RenderedAsNumberAndUnit
    /\ (base = FREEZING_POINT_OF_WATER /\ t.scale = "Fahrenheit" /\ text # NoText)
          => text = "31.99997 °F"

FreezingPointRendered ==
    /\ origin.ctor = "const"
    /\ base = FREEZING_POINT_OF_WATER
    /\ tags = <<"Fahrenheit">>
    /\ text # NoText

\* C9: extracting s-constructor(x), re-tagged or not, returns x converted from s to
\* the scale the value is tagged with (x itself when the scales agree), up to the
\* rounding of f32 (Tol), for every finite input.
ExtractionIsPhysicalConversion ==
    (out.some /\ origin.ctor \in Ctors /\ IsFin(origin.x)) =>
        Within(out.v,
               IF t.scale = ScaleOf(origin.ctor) THEN origin.x
               ELSE FromKelvin(t.scale, KelvinEquivalent(origin.ctor, origin.x)),
               Tol)

\* C10 as stated: after a non-empty sequence of re-taggings the value equals the
\* originally constructed value re-tagged by the last of them alone, and equals the
\* original itself when that is the scale the original carries.
RetagLastWins ==
    tags # <<>> =>
        /\ eq(t, [kelvin |-> base.kelvin, scale |-> tags[Len(tags)]])
        /\ base.scale = tags[Len(tags)] => eq(t, base)

\* C10 amended: the same, for every value whose magnitude is not NaN.
RetagLastWinsUnlessNaN ==
    (tags # <<>> /\ base.kelvin.k # "nan") =>
        /\ eq(t, [kelvin |-> base.kelvin, scale |-> tags[Len(tags)]])
        /\ base.scale = tags[Len(tags)] => eq(t, base)

RetaggedBackToOwnScale ==
    /\ Len(tags) = 2
    /\ tags[1] # tags[2]
    /\ base.scale = tags[2]
    /\ base.kelvin.k # "nan"
    /\ origin.ctor = "celsius"

====
